---- MODULE Spec2Model ----
(***************************************************************************)
(* Legacy Office Converter (src/main.py): the three HTTP operations GET /, *)
(* GET /health and POST /convert, the converter invoker                    *)
(* convert_with_libreoffice, the availability probe and the per-request    *)
(* scratch directory under the shared temporary-files root.                *)
(*                                                                         *)
(* File names are sequences of one-character strings, so that pathlib's    *)
(* suffix / stem / name and str.lower() are computed, not assumed.         *)
(***************************************************************************)
EXTENDS Integers, Sequences, FiniteSets, TLC

(* ------------------------------ bounds -------------------------------- *)
\* names tempfile.mkdtemp() can draw from
NumDirs == 2

\* the requests in flight: two, handled in any interleaving of their steps
Reqs == {"r1", "r2"}
DirPool == <<"tmpa", "tmpb", "tmpc", "tmpd">>
DirNames == {DirPool[i] : i \in 1..NumDirs}
\* the values uuid.uuid4() can draw: two, so that two requests can stage
\* under the same name and under different names
Ids == {"u1", "u2"}

(* --------------------------- the two tables --------------------------- *)
DOC == <<".", "d", "o", "c">>
XLS == <<".", "x", "l", "s">>
PPT == <<".", "p", "p", "t">>
DOCX == <<".", "d", "o", "c", "x">>
XLSX == <<".", "x", "l", "s", "x">>
PPTX == <<".", "p", "p", "t", "x">>

\* a table that sends .xls to the wrong modern extension
FORMAT_MAPPING_swapped == (DOC :> DOCX) @@ (XLS :> PPTX) @@ (PPT :> PPTX)

FORMAT_MAPPING == (DOC :> DOCX) @@ (XLS :> XLSX) @@ (PPT :> PPTX)

LIBREOFFICE_FILTERS ==
    (DOCX :> <<"d", "o", "c", "x">>) @@ (XLSX :> <<"x", "l", "s", "x">>)
        @@ (PPTX :> <<"p", "p", "t", "x">>)

(* ------------------------ str and pathlib helpers --------------------- *)
\* str.lower(), on the letters the uploads use
LowerChar(c) ==
    CASE c = "A" -> "a"
      [] c = "C" -> "c"
      [] c = "D" -> "d"
      [] c = "O" -> "o"
      [] c = "P" -> "p"
      [] OTHER -> c

Lower(s) == [i \in 1..Len(s) |-> LowerChar(s[i])]

\* str.rfind(c) + 1: the last position of c in s, 0 when there is none
RFind(s, c) ==
    LET hits == {i \in 1..Len(s) : s[i] = c}
    IN  IF hits = {} THEN 0 ELSE CHOOSE i \in hits : \A j \in hits : j <= i

\* PurePath.name: the final path component
PathName(p) == SubSeq(p, RFind(p, "/") + 1, Len(p))

\* PurePath.suffix: from the last dot of the name, unless that dot is the
\* first or the last character of the name
Suffix(p) ==
    LET name == PathName(p)
        i == RFind(name, ".")
    IN  IF 1 < i /\ i < Len(name) THEN SubSeq(name, i, Len(name)) ELSE <<>>

\* PurePath.stem: the name without its suffix
Stem(p) ==
    LET name == PathName(p)
        i == RFind(name, ".")
    IN  IF 1 < i /\ i < Len(name) THEN SubSeq(name, 1, i - 1) ELSE name

(* ------------------------------- inputs ------------------------------- *)
\* the filenames an upload can declare
FileNames ==
    { <<"a", ".", "d", "o", "c">>,
      <<"A", ".", "D", "O", "C">>,
      <<"a", ".", "b", ".", "x", "l", "s">>,
      <<"d", "/", "p", ".", "P", "p", "t">>,
      <<"a", ".", "p", "d", "f">>,
      <<"d", "o", "c">>,
      <<".", "d", "o", "c">>,
      <<"a", ".", "d", "o", "c", ".">> }

\* what subprocess.run() can do: return a CompletedProcess, or raise
RunKinds == {"completed", "TimeoutExpired", "FileNotFoundError", "Exception"}
ReturnCodes == {0, 1}

\* the text of a fault raised while the upload is staged
Faults == {"No space left on device"}

NoName == <<>>
NoPath == <<>>
NoDir == "none"
NoResponse == [status |-> 0, detail |-> <<>>, filename |-> NoName, formats |-> {}]
NoRaise == [kind |-> "none", status |-> 0, detail |-> <<>>]
NoRun == [kind |-> "none", returncode |-> 0]
NoArgs == [input_path |-> NoPath, output_dir |-> NoDir, output_format |-> <<>>]


(* ------------------------------- state -------------------------------- *)
VARIABLES
    fs,             \* the temporary-files root: [dirs, files]
    pc,             \* each request's position in its handler
    filename,       \* file.filename of the upload
    file_ext,       \* line 122
    output_ext,     \* line 132
    output_format,  \* line 133
    temp_dir,       \* line 136
    input_path,     \* line 142, <<directory, name>>
    proc,           \* what subprocess.run() did for the request
    conv_args,      \* the arguments convert_with_libreoffice was called with
    output_path,    \* line 149, <<directory, name>> or NoPath for None
    raised,         \* the exception in flight inside the try block
    resp,           \* the HTTP response the client gets
    body,           \* what became of the 200 response's file body
    ops,            \* the file-system operations done, by request
    launches        \* how often the conversion process was started, by request

vars ==
    <<fs, pc, filename, file_ext, output_ext, output_format, temp_dir,
      input_path, proc, conv_args, output_path, raised, resp, body, ops,
      launches>>

Entry(name, kind) == [name |-> name, kind |-> kind]

\* Path.exists(): true of files and of directories
Exists(f, path) ==
    /\ path # NoPath
    /\ path[1] \in f.dirs
    /\ \E e \in f.files[path[1]] : e.name = path[2]

\* what starting the external tool can come to
Runs ==
    {[kind |-> "completed", returncode |-> c] : c \in ReturnCodes}
        \cup {[kind |-> k, returncode |-> 0] : k \in RunKinds \ {"completed"}}

Init ==
    /\ fs = [dirs |-> {}, files |-> [d \in DirNames |-> {}]]
    /\ pc = [r \in Reqs |-> "start"]
    /\ filename = [r \in Reqs |-> NoName]
    /\ file_ext = [r \in Reqs |-> <<>>]
    /\ output_ext = [r \in Reqs |-> <<>>]
    /\ output_format = [r \in Reqs |-> <<>>]
    /\ temp_dir = [r \in Reqs |-> NoDir]
    /\ input_path = [r \in Reqs |-> NoPath]
    /\ proc = [r \in Reqs |-> NoRun]
    /\ conv_args = [r \in Reqs |-> NoArgs]
    /\ output_path = [r \in Reqs |-> NoPath]
    /\ raised = [r \in Reqs |-> NoRaise]
    /\ resp = [r \in Reqs |-> NoResponse]
    /\ body = [r \in Reqs |-> "none"]
    /\ ops = {}
    /\ launches = [r \in Reqs |-> 0]

(* --------------------------- availability probe ----------------------- *)
\* a probe that only asks whether the process could be started
is_libreoffice_available_started(run) == run.kind = "completed"

\* is_libreoffice_available(), given what subprocess.run() did
is_libreoffice_available(run) ==
    run.kind = "completed" /\ run.returncode = 0

HandlerLocals ==
    <<filename, file_ext, output_ext, output_format, temp_dir, input_path,
      conv_args, output_path, raised, body, launches>>

\* GET /
Root(r) ==
    /\ pc[r] = "start"
    /\ \E run \in Runs :
        LET libreoffice_ok == is_libreoffice_available(run)
        IN  /\ proc' = [proc EXCEPT ![r] = run]
            /\ resp' = [resp EXCEPT ![r] =
                    [status |-> 200,
                     detail |-> <<IF libreoffice_ok THEN "healthy" ELSE "unhealthy">>,
                     filename |-> NoName,
                     formats |-> DOMAIN FORMAT_MAPPING]]
    /\ pc' = [pc EXCEPT ![r] = "done_root"]
    /\ UNCHANGED <<fs, ops>>
    /\ UNCHANGED HandlerLocals

\* GET /health
Health(r) ==
    /\ pc[r] = "start"
    /\ \E run \in Runs :
        LET libreoffice_ok == is_libreoffice_available(run)
        IN  /\ proc' = [proc EXCEPT ![r] = run]
            /\ resp' = [resp EXCEPT ![r] =
                    IF ~libreoffice_ok
                    THEN [status |-> 503,
                          detail |-> <<"unhealthy", "LibreOffice binary not responding">>,
                          filename |-> NoName, formats |-> {}]
                    ELSE [status |-> 200, detail |-> <<"healthy">>,
                          filename |-> NoName, formats |-> {}]]
    /\ pc' = [pc EXCEPT ![r] = "done_health"]
    /\ UNCHANGED <<fs, ops>>
    /\ UNCHANGED HandlerLocals

(* ------------------------------ POST /convert ------------------------- *)
\* the names tempfile.mkdtemp() may return: it creates the directory
\* exclusively, so never one that exists
MkdtempNames(f) == DirNames \ f.dirs

\* a validation that compares the extension as uploaded
Unsupported_casesensitive(fn) == Suffix(fn) \notin DOMAIN FORMAT_MAPPING

\* lines 122-125: the extension test
Unsupported(fn) == Lower(Suffix(fn)) \notin DOMAIN FORMAT_MAPPING

\* a rejection that comes after the directory was made
RejectEffects_mkdtemp(f) == [dirs |-> f.dirs \cup {DirPool[1]}, files |-> f.files]

\* lines 125-129: the 400 is raised before mkdtemp() at line 136 and outside
\* the try, so the file system is as it was
RejectEffects(f) == f

\* lines 121-136: validate the extension, pick the formats, make the directory
Receive(r) ==
    /\ pc[r] = "start"
    /\ \E fn \in FileNames :
        /\ filename' = [filename EXCEPT ![r] = fn]
        /\ IF Unsupported(fn)
           THEN /\ resp' = [resp EXCEPT ![r] =
                        [status |-> 400,
                         detail |-> <<"Unsupported file format">>,
                         filename |-> NoName,
                         formats |-> DOMAIN FORMAT_MAPPING]]
                /\ pc' = [pc EXCEPT ![r] = "done"]
                /\ fs' = RejectEffects(fs)
                /\ UNCHANGED <<file_ext, output_ext, output_format, temp_dir, ops>>
           ELSE LET ext == Lower(Suffix(fn))
                IN  /\ file_ext' = [file_ext EXCEPT ![r] = ext]
                    /\ output_ext' = [output_ext EXCEPT ![r] = FORMAT_MAPPING[ext]]
                    /\ output_format' = [output_format EXCEPT ![r] =
                            LIBREOFFICE_FILTERS[FORMAT_MAPPING[ext]]]
                    /\ \E d \in MkdtempNames(fs) :
                        /\ fs' = [dirs |-> fs.dirs \cup {d},
                                  files |-> [fs.files EXCEPT ![d] = {}]]
                        /\ temp_dir' = [temp_dir EXCEPT ![r] = d]
                        /\ ops' = ops \cup {[req |-> r, op |-> "mkdtemp", dir |-> d]}
                    /\ pc' = [pc EXCEPT ![r] = "staging"]
                    /\ UNCHANGED resp
    /\ UNCHANGED <<input_path, proc, conv_args, output_path, raised, body, launches>>


\* Path.write_bytes(): the file is there afterwards, with the given name
WriteFile(f, path) ==
    [f EXCEPT !.files[path[1]] = @ \cup {Entry(path[2], "file")}]

\* lines 139-146: the staging name, then the upload's bytes written under it.
\* read() or write_bytes() may raise; write_bytes() may have created the file
\* by then.
Stage(r) ==
    /\ pc[r] = "staging"
    /\ \E unique_id \in Ids :
        LET input_filename == <<unique_id>> \o file_ext[r]
            path == <<temp_dir[r], input_filename>>
        IN  /\ input_path' = [input_path EXCEPT ![r] = path]
            /\ \/ /\ fs' = WriteFile(fs, path)
                  /\ ops' = ops \cup {[req |-> r, op |-> "write", dir |-> path[1]]}
                  /\ pc' = [pc EXCEPT ![r] = "converting"]
                  /\ UNCHANGED raised
               \/ \E e \in Faults :
                  /\ raised' = [raised EXCEPT ![r] =
                        [kind |-> "Exception", status |-> 0, detail |-> <<e>>]]
                  /\ pc' = [pc EXCEPT ![r] = "except_exception"]
                  /\ \/ UNCHANGED <<fs, ops>>
                     \/ /\ fs' = WriteFile(fs, path)
                        /\ ops' = ops \cup {[req |-> r, op |-> "write", dir |-> path[1]]}
    /\ UNCHANGED <<filename, file_ext, output_ext, output_format, temp_dir,
                   proc, conv_args, output_path, resp, body, launches>>

(* ------------------------- convert_with_libreoffice ------------------- *)
\* line 85: the name the tool is expected to give its output
ExpectedName(in_path, format) == Stem(in_path[2]) \o <<".">> \o format

\* a result that trusts a zero exit code without looking for the file
ConvertResult_trusting(run, f, in_path, out_dir, format) ==
    IF run.kind # "completed" THEN NoPath
    ELSE IF run.returncode # 0 THEN NoPath
    ELSE <<out_dir, ExpectedName(in_path, format)>>

\* lines 61-98: what convert_with_libreoffice returns once subprocess.run()
\* has done `run` and left the file system as f
ConvertResult(run, f, in_path, out_dir, format) ==
    IF run.kind # "completed" THEN NoPath
    ELSE IF run.returncode # 0 THEN NoPath
    ELSE LET out == <<out_dir, ExpectedName(in_path, format)>>
         IN  IF Exists(f, out) THEN out ELSE NoPath

\* what the external tool may leave in the output directory: its output under
\* the expected name, and a subdirectory
ToolLeaves(in_path, format) ==
    SUBSET { Entry(ExpectedName(in_path, format), "file"),
             Entry(<<"s", "u", "b">>, "dir") }

\* a converter invoker that starts the tool again after a timeout
SubprocessRuns_retry(run) == IF run.kind = "TimeoutExpired" THEN 2 ELSE 1

\* lines 73-78: convert_with_libreoffice calls subprocess.run() once, in no
\* loop, whatever the call comes to
SubprocessRuns(run) == 1

\* a response name taken from the staged file
ResponseName_staged(r) == Stem(input_path[r][2]) \o output_ext[r]

\* lines 158-159: the name the response carries
ResponseName(r) == Stem(filename[r]) \o output_ext[r]

\* lines 148-167: the call of convert_with_libreoffice, the external process
\* included (a tool that could not be started, the binary missing or another
\* fault of the start, leaves nothing; one that ran may leave anything, also
\* when it timed out); then no usable output raises the 500, and otherwise the
\* FileResponse is returned and the handler is over
Convert(r) ==
    /\ pc[r] = "converting"
    /\ \E run \in Runs :
       \E left \in ToolLeaves(input_path[r], output_format[r]) :
        LET after == [fs EXCEPT !.files[temp_dir[r]] = @ \cup left]
            out == ConvertResult(run, after, input_path[r], temp_dir[r],
                                 output_format[r])
        IN  /\ run.kind \in {"FileNotFoundError", "Exception"} => left = {}
            /\ proc' = [proc EXCEPT ![r] = run]
            /\ launches' = [launches EXCEPT ![r] = @ + SubprocessRuns(run)]
            /\ conv_args' = [conv_args EXCEPT ![r] =
                    [input_path |-> input_path[r], output_dir |-> temp_dir[r],
                     output_format |-> output_format[r]]]
            /\ fs' = after
            /\ output_path' = [output_path EXCEPT ![r] = out]
            /\ ops' = ops \cup {[req |-> r, op |-> "convert", dir |-> temp_dir[r]]}
                          \cup {[req |-> r, op |-> "exists", dir |-> out[1]] :
                                    x \in IF out = NoPath THEN {} ELSE {1}}
            /\ IF out = NoPath \/ ~Exists(after, out)
               THEN /\ raised' = [raised EXCEPT ![r] =
                            [kind |-> "HTTPException", status |-> 500,
                             detail |-> <<"Conversion failed">>]]
                    /\ pc' = [pc EXCEPT ![r] = "except_http"]
                    /\ UNCHANGED resp
               ELSE /\ resp' = [resp EXCEPT ![r] =
                            [status |-> 200, detail |-> <<>>,
                             filename |-> ResponseName(r), formats |-> {}]]
                    /\ pc' = [pc EXCEPT ![r] = "streaming"]
                    /\ UNCHANGED raised
    /\ UNCHANGED <<filename, file_ext, output_ext, output_format, temp_dir,
                   input_path, body>>

(* ------------------------------- teardown ----------------------------- *)
InternalServerError ==
    [status |-> 500, detail |-> <<"Internal Server Error">>,
     filename |-> NoName, formats |-> {}]

\* a teardown that empties the whole temporary-files root
Teardown_root(f, d) ==
    {[fs |-> [dirs |-> {}, files |-> [x \in DirNames |-> {}]], ok |-> TRUE]}

\* lines 171-173 and 177-179: unlink every entry of the directory, then
\* rmdir it. Path.unlink() raises on a directory; the entries glob() gave
\* before it are gone by then, the others and the directory stay.
Teardown(f, d) ==
    LET entries == f.files[d]
        subdirs == {e \in entries : e.kind = "dir"}
    IN  IF subdirs = {}
        THEN {[fs |-> [dirs |-> f.dirs \ {d}, files |-> [f.files EXCEPT ![d] = {}]],
               ok |-> TRUE]}
        ELSE {[fs |-> [f EXCEPT !.files[d] = entries \ gone], ok |-> FALSE] :
                gone \in SUBSET (entries \ subdirs)}

\* lines 169-174: the HTTPException is raised again once the directory is gone;
\* a fault of the teardown itself leaves the handler instead
ExceptHTTP(r) ==
    /\ pc[r] = "except_http"
    /\ \E o \in Teardown(fs, temp_dir[r]) :
        /\ fs' = o.fs
        /\ resp' = [resp EXCEPT ![r] =
                IF o.ok
                THEN [status |-> raised[r].status, detail |-> raised[r].detail,
                      filename |-> NoName, formats |-> {}]
                ELSE InternalServerError]
    /\ ops' = ops \cup {[req |-> r, op |-> "teardown", dir |-> temp_dir[r]]}
    /\ pc' = [pc EXCEPT ![r] = "done"]
    /\ UNCHANGED <<filename, file_ext, output_ext, output_format, temp_dir,
                   input_path, proc, conv_args, output_path, raised, body,
                   launches>>

\* lines 175-180: any other exception becomes a 500 carrying its text
ExceptException(r) ==
    /\ pc[r] = "except_exception"
    /\ \E o \in Teardown(fs, temp_dir[r]) :
        /\ fs' = o.fs
        /\ resp' = [resp EXCEPT ![r] =
                IF o.ok
                THEN [status |-> 500,
                      detail |-> <<"An error occurred">> \o raised[r].detail,
                      filename |-> NoName, formats |-> {}]
                ELSE InternalServerError]
    /\ ops' = ops \cup {[req |-> r, op |-> "teardown", dir |-> temp_dir[r]]}
    /\ pc' = [pc EXCEPT ![r] = "done"]
    /\ UNCHANGED <<filename, file_ext, output_ext, output_format, temp_dir,
                   input_path, proc, conv_args, output_path, raised, body,
                   launches>>

\* lines 162-167: the FileResponse sends the file at output_path after the
\* handler has returned; background=None, so nothing runs after it
Stream(r) ==
    /\ pc[r] = "streaming"
    /\ body' = [body EXCEPT ![r] =
            IF Exists(fs, output_path[r]) THEN "sent" ELSE "missing"]
    /\ ops' = ops \cup {[req |-> r, op |-> "read", dir |-> output_path[r][1]]}
    /\ pc' = [pc EXCEPT ![r] = "done"]
    /\ UNCHANGED <<fs, filename, file_ext, output_ext, output_format, temp_dir,
                   input_path, proc, conv_args, output_path, raised, resp,
                   launches>>

Next ==
    \E r \in Reqs :
        \/ Root(r)
        \/ Health(r)
        \/ Receive(r)
        \/ Stage(r)
        \/ Convert(r)
        \/ ExceptHTTP(r)
        \/ ExceptException(r)
        \/ Stream(r)

Spec == Init /\ [][Next]_vars


(* ------------------------------- claims ------------------------------- *)
\* the request is a POST /convert (it has declared its filename)
IsConvert(r) == filename[r] # NoName

\* the request's handler made a scratch directory
HasWorkspace(r) == temp_dir[r] # NoDir

\* the last n characters of s
LastN(s, n) == SubSeq(s, Len(s) - n + 1, Len(s))

\* s without its last n characters
DropLastN(s, n) == SubSeq(s, 1, Len(s) - n)

\* the uploaded file's name: the filename after its last "/"
UploadName(fn) == SubSeq(fn, RFind(fn, "/") + 1, Len(fn))

\* the upload's name ends in .doc, .xls or .ppt, in any letter case
HasLegacyExt(fn) ==
    /\ Len(UploadName(fn)) > 4
    /\ Lower(LastN(UploadName(fn), 4)) \in {DOC, XLS, PPT}

\* HasLegacyExt and the lower-cased extension, tabulated over the uploads
LegacyExtOf ==
    [fn \in FileNames |->
        IF HasLegacyExt(fn) THEN Lower(LastN(UploadName(fn), 4)) ELSE <<>>]

\* C1: whenever a POST /convert that made a scratch directory ends (its
\* response sent, whatever the outcome), the directory is gone from the
\* temporary-files root.
C1_WorkspaceGoneAtEnd ==
    [][\A r \in Reqs :
        (pc[r] # "done" /\ pc'[r] = "done" /\ temp_dir'[r] # NoDir)
            => temp_dir'[r] \notin fs'.dirs]_vars

\* C1 on the 200 path: every converted request whose response has been sent
\* still has its scratch directory, staged input and output on disk.
C1_Every200Leaves ==
    \A r \in Reqs :
        (pc[r] = "done" /\ IsConvert(r) /\ resp[r].status = 200)
            => /\ temp_dir[r] \in fs.dirs
               /\ Exists(fs, input_path[r])
               /\ Exists(fs, output_path[r])

\* a converted request whose response has been sent
C1_Some200Done ==
    \E r \in Reqs : pc[r] = "done" /\ IsConvert(r) /\ resp[r].status = 200

\* C2: a POST /convert is answered 400 "Unsupported file format" exactly when
\* its filename has none of the extensions .doc, .xls, .ppt in any letter
\* case; two accepted uploads whose filenames differ only in letter case get
\* the same extension, target extension and format identifier.
C2_UnsupportedExactly ==
    /\ \A r \in Reqs :
        IsConvert(r) =>
            LET ext == LegacyExtOf[filename[r]]
            IN  /\ resp[r].status = 400 <=> ext = <<>>
                /\ resp[r].status = 400 =>
                        (resp[r].detail = <<"Unsupported file format">> /\ pc[r] = "done")
                /\ file_ext[r] = ext
    /\ (/\ IsConvert("r1") /\ IsConvert("r2")
        /\ filename["r1"] # filename["r2"]
        /\ LegacyExtOf[filename["r1"]] # <<>>
        /\ Lower(filename["r1"]) = Lower(filename["r2"]))
            => /\ file_ext["r1"] = file_ext["r2"]
               /\ output_ext["r1"] = output_ext["r2"]
               /\ output_format["r1"] = output_format["r2"]
               /\ resp["r1"].status # 400 /\ resp["r2"].status # 400

\* C2 witness: TEST.DOC-like and test.doc-like uploads both converted (200),
\* with the same formats
C2_Witness ==
    /\ filename["r1"] = <<"A", ".", "D", "O", "C">>
    /\ filename["r2"] = <<"a", ".", "d", "o", "c">>
    /\ resp["r1"].status = 200
    /\ resp["r2"].status = 200

\* C2 witness of the rejection: an upload without an extension answered 400
C2_WitnessRejected ==
    \E r \in Reqs : filename[r] = <<"d", "o", "c">> /\ resp[r].status = 400


\* the converter invoker was called for the request and returned no path
ConversionFailed(r) == conv_args[r] # NoArgs /\ output_path[r] = NoPath

\* C3: a finished POST /convert whose converter invoker returned no result
\* (or a path that is not on disk) was answered 500 with the detail
\* "Conversion failed", never 200.
C3_FailedConversionIs500 ==
    \A r \in Reqs :
        (pc[r] = "done" /\ ConversionFailed(r))
            => /\ resp[r].status = 500
               /\ resp[r].detail = <<"Conversion failed">>

\* The part of C3 that the code keeps whatever the teardown does: a failed
\* conversion is answered 500, never 200.
C3_FailedConversionNever200 ==
    \A r \in Reqs :
        (pc[r] = "done" /\ ConversionFailed(r)) => resp[r].status = 500

\* the modern extension of the fixed table, by the upload's extension
ModernExtOf(fn) ==
    LET e == Lower(LastN(UploadName(fn), 4))
    IN  IF e = DOC THEN DOCX ELSE IF e = XLS THEN XLSX ELSE PPTX

\* C4: the attachment filename of every 200 answer of POST /convert is the
\* uploaded file's name without its extension, followed by the mapped modern
\* extension; it holds no staging id, and two uploads of the same filename get
\* the same attachment filename whatever their staging names.
C4_ResponseFilename ==
    /\ \A r \in Reqs :
        (IsConvert(r) /\ resp[r].status = 200)
            => /\ resp[r].filename =
                    DropLastN(UploadName(filename[r]), 4) \o ModernExtOf(filename[r])
               /\ \A i \in 1..Len(resp[r].filename) : resp[r].filename[i] \notin Ids
    /\ \A r1, r2 \in Reqs :
        (IsConvert(r1) /\ resp[r1].status = 200 /\ resp[r2].status = 200
            /\ filename[r1] = filename[r2])
            => resp[r1].filename = resp[r2].filename

\* C4 witness: the same multi-dot filename uploaded twice, staged under
\* different ids, both converted
C4_Witness ==
    /\ filename["r1"] = <<"a", ".", "b", ".", "x", "l", "s">>
    /\ filename["r2"] = filename["r1"]
    /\ resp["r1"].status = 200
    /\ resp["r2"].status = 200
    /\ input_path["r1"][2] # input_path["r2"][2]

\* C4 witness with a directory in the filename and a mixed-case extension
C4_WitnessPath ==
    \E r \in Reqs :
        /\ filename[r] = <<"d", "/", "p", ".", "P", "p", "t">>
        /\ resp[r].status = 200
        /\ resp[r].filename = <<"p", ".", "p", "p", "t", "x">>

\* C5: every accepted upload has one of the three legacy extensions, its
\* target extension is the table's (.doc to .docx, .xls to .xlsx, .ppt to
\* .pptx), and the format identifier, also as passed to the converter
\* invoker, is docx, xlsx, pptx respectively; the supported legacy
\* extensions are exactly .doc, .xls, .ppt.
C5_ExactMapping ==
    /\ DOMAIN FORMAT_MAPPING = {DOC, XLS, PPT}
    /\ \A r \in Reqs :
        HasWorkspace(r) =>
            /\ file_ext[r] = Lower(LastN(filename[r], 4))
            /\ \/ file_ext[r] = DOC /\ output_ext[r] = DOCX
                    /\ output_format[r] = <<"d", "o", "c", "x">>
               \/ file_ext[r] = XLS /\ output_ext[r] = XLSX
                    /\ output_format[r] = <<"x", "l", "s", "x">>
               \/ file_ext[r] = PPT /\ output_ext[r] = PPTX
                    /\ output_format[r] = <<"p", "p", "t", "x">>
            /\ conv_args[r] # NoArgs =>
                    conv_args[r].output_format = SubSeq(output_ext[r], 2, 5)

\* C5 witness: an .xls upload for which the converter was called with xlsx
C5_Witness ==
    \E r \in Reqs :
        /\ file_ext[r] = XLS
        /\ conv_args[r] # NoArgs
        /\ conv_args[r].output_format = <<"x", "l", "s", "x">>

\* the probe's process started, did not time out and exited with code 0
ProbeSucceeded(r) == proc[r].kind = "completed" /\ proc[r].returncode = 0

\* C6: GET /health answers 200 {"status": "healthy"} exactly when the probe
\* succeeded and 503 otherwise; GET / answers 200 always, lists exactly the
\* three legacy extensions and says "healthy" exactly when the probe succeeded.
C6_HealthSurface ==
    \A r \in Reqs :
        /\ pc[r] = "done_health" =>
            /\ resp[r].status \in {200, 503}
            /\ resp[r].status = 200 <=> ProbeSucceeded(r)
            /\ resp[r].status = 200 => resp[r].detail = <<"healthy">>
        /\ pc[r] = "done_root" =>
            /\ resp[r].status = 200
            /\ resp[r].formats = {DOC, XLS, PPT}
            /\ resp[r].detail = <<"healthy">> <=> ProbeSucceeded(r)

\* C6 witness: a probe that exited non-zero, seen as 503 by GET /health and
\* as 200 "unhealthy" by GET /
C6_Witness ==
    /\ pc["r1"] = "done_health" /\ pc["r2"] = "done_root"
    /\ proc["r1"] = [kind |-> "completed", returncode |-> 1]
    /\ proc["r2"] = [kind |-> "completed", returncode |-> 1]
    /\ resp["r1"].status = 503
    /\ resp["r2"].detail = <<"unhealthy">>

\* C6 witness of the healthy side
C6_WitnessHealthy ==
    \E r \in Reqs : pc[r] = "done_health" /\ resp[r].status = 200


\* C7: every finished POST /convert was answered 200, 400 or 500 and never
\* 503: 200 with the converted file, 400 for an unsupported or missing
\* extension, 500 "Conversion failed" when the conversion failed (never
\* rewrapped as an unexpected fault), and 500 carrying the fault's text for
\* any other fault.
C7_ThreeOutcomes ==
    \A r \in Reqs :
        (pc[r] = "done" /\ IsConvert(r)) =>
            /\ resp[r].status \in {200, 400, 500}
            /\ resp[r].status = 400 <=> ~HasLegacyExt(filename[r])
            /\ resp[r].status = 200 => (output_path[r] # NoPath /\ body[r] = "sent")
            /\ ConversionFailed(r) =>
                    (resp[r].status = 500 /\ resp[r].detail = <<"Conversion failed">>)
            /\ raised[r].kind = "Exception" =>
                    /\ resp[r].status = 500
                    /\ resp[r].detail = <<"An error occurred">> \o raised[r].detail

\* The part of C7 that the code keeps whatever the teardown does: the status
\* is 200, 400 or 500, never 503, and a failure is never answered 200.
C7_StatusClasses ==
    \A r \in Reqs :
        (pc[r] = "done" /\ IsConvert(r)) =>
            /\ resp[r].status \in {200, 400, 500}
            /\ resp[r].status = 400 <=> ~HasLegacyExt(filename[r])
            /\ (ConversionFailed(r) \/ raised[r].kind = "Exception")
                    => resp[r].status = 500

\* C8: when an error path of POST /convert that had a scratch directory
\* answers (500 conversion failure, 500 unexpected fault), the staged input,
\* whatever the converter left and the directory itself are gone.
C8_ErrorPathsTearDown ==
    [][\A r \in Reqs :
        (pc[r] \in {"except_http", "except_exception"} /\ pc'[r] = "done")
            => /\ temp_dir[r] \notin fs'.dirs
               /\ fs'.files[temp_dir[r]] = {}
               /\ ~Exists(fs', input_path[r])]_vars

\* the request is between the creation of its directory and its last step
InFlight(r) ==
    pc[r] \in {"staging", "converting", "except_http", "except_exception", "streaming"}

\* C9: requests in flight together have different scratch directories; every
\* file-system operation of a request is on its own directory; and what a
\* request has staged or got converted stays on disk while it needs it,
\* whatever the other requests do (their teardown included).
C9_Isolation ==
    /\ \A r1, r2 \in Reqs :
        (r1 # r2 /\ InFlight(r1) /\ InFlight(r2)) => temp_dir[r1] # temp_dir[r2]
    /\ \A o \in ops : o.dir = temp_dir[o.req]
    /\ \A r \in Reqs :
        /\ InFlight(r) => temp_dir[r] \in fs.dirs
        /\ pc[r] = "converting" => Exists(fs, input_path[r])
        /\ pc[r] = "streaming" =>
                (Exists(fs, input_path[r]) /\ Exists(fs, output_path[r]))
        /\ (pc[r] = "done" /\ resp[r].status = 200) => body[r] = "sent"

\* C9 witness: one request has torn its directory down while the other is
\* about to stream the output in its own
C9_Witness ==
    /\ pc["r1"] = "done" /\ resp["r1"].status = 500
    /\ HasWorkspace("r1") /\ temp_dir["r1"] \notin fs.dirs
    /\ pc["r2"] = "streaming"
    /\ Exists(fs, output_path["r2"])

\* C9 witness of the concurrency: both requests in flight, each with its file
\* staged
C9_WitnessBoth ==
    /\ pc["r1"] = "converting" /\ pc["r2"] = "converting"
    /\ input_path["r1"][2] = input_path["r2"][2]

\* the name the tool is expected to give the output of a staged file
ExpectedOutput(r) ==
    DropLastN(conv_args[r].input_path[2], 4) \o <<".">> \o conv_args[r].output_format

\* C10: right after convert_with_libreoffice has returned, its result is a
\* path exactly when the process exited with code 0 and the file named
\* "<input's base name>.<format>" is in the output directory, and then it is
\* that file; in every other case it is None, and no exception leaves it.
C10_ConvertResult ==
    \A r \in Reqs :
        /\ pc[r] \in {"except_http", "streaming"} =>
            /\ conv_args[r] # NoArgs
            /\ output_path[r] # NoPath <=>
                    /\ proc[r] = [kind |-> "completed", returncode |-> 0]
                    /\ Entry(ExpectedOutput(r), "file") \in fs.files[conv_args[r].output_dir]
            /\ output_path[r] # NoPath =>
                    output_path[r] = <<conv_args[r].output_dir, ExpectedOutput(r)>>
        /\ conv_args[r] # NoArgs => raised[r].kind # "Exception"

\* C10 witness: for one request the tool exited 0 and its output is there, for
\* the other it exited 0 without leaving the expected file
C10_Witness ==
    /\ pc["r1"] = "streaming" /\ output_path["r1"] # NoPath
    /\ pc["r2"] = "except_http"
    /\ proc["r2"] = [kind |-> "completed", returncode |-> 0]
    /\ output_path["r2"] = NoPath

\* C10 witness of the raising runs: a timeout that left the expected file
C10_WitnessTimeout ==
    \E r \in Reqs :
        /\ pc[r] = "except_http"
        /\ proc[r].kind = "TimeoutExpired"
        /\ Exists(fs, <<temp_dir[r], ExpectedOutput(r)>>)
        /\ output_path[r] = NoPath


\* C11: no request starts the conversion process more than once: a request
\* whose conversion failed (timeout, non-zero exit, no output file) started
\* it exactly once and is on its way to, or has given, its failure response;
\* a request answered 400 never started it.
C11_AtMostOneLaunch ==
    \A r \in Reqs :
        /\ launches[r] <= 1
        /\ launches[r] = 1 <=> conv_args[r] # NoArgs
        /\ ConversionFailed(r) =>
                /\ launches[r] = 1
                /\ pc[r] \in {"except_http", "done"}
                /\ resp[r].status \in {0, 500}
        /\ resp[r].status = 400 => launches[r] = 0

\* C11 witness: one request's conversion timed out and it was answered 500
\* after a single start of the tool; the other was answered 400
C11_Witness ==
    /\ pc["r1"] = "done"
    /\ proc["r1"].kind = "TimeoutExpired"
    /\ resp["r1"].status = 500
    /\ launches["r1"] = 1
    /\ resp["r2"].status = 400
    /\ launches["r2"] = 0


\* the response the error path was about to give: the HTTPException as it
\* was raised, or the 500 carrying the text of the fault
OriginalError(r) ==
    IF raised[r].kind = "HTTPException"
    THEN [status |-> raised[r].status, detail |-> raised[r].detail,
          filename |-> NoName, formats |-> {}]
    ELSE [status |-> 500,
          detail |-> <<"An error occurred">> \o raised[r].detail,
          filename |-> NoName, formats |-> {}]

\* C12: when an error path of POST /convert answers, the caller gets the
\* original error response (500 "Conversion failed", or 500 with the text of
\* the original fault), also when the teardown could not delete an entry or
\* the directory.
C12_OriginalErrorKept ==
    [][\A r \in Reqs :
        (pc[r] \in {"except_http", "except_exception"} /\ pc'[r] = "done")
            => resp'[r] = OriginalError(r)]_vars

\* The part of C12 that the code keeps: when the teardown deleted everything
\* the caller gets the original error response, and in every case the status
\* is 500.
C12_OriginalErrorKeptWhenTornDown ==
    [][\A r \in Reqs :
        (pc[r] \in {"except_http", "except_exception"} /\ pc'[r] = "done")
            => /\ resp'[r].status = 500
               /\ temp_dir[r] \notin fs'.dirs => resp'[r] = OriginalError(r)]_vars


\* C13: a converted request's output file is on disk when its bytes are
\* sent, and once they have been sent its scratch directory is deleted.
C13_StreamThenDelete ==
    \A r \in Reqs :
        (IsConvert(r) /\ resp[r].status = 200) =>
            /\ pc[r] = "streaming" => Exists(fs, output_path[r])
            /\ pc[r] = "done" =>
                    /\ body[r] = "sent"
                    /\ temp_dir[r] \notin fs.dirs

\* The part of C13 that the code keeps: the output file is on disk when its
\* bytes are sent, and nothing deletes the directory before that.
C13_OutputThereWhenStreamed ==
    \A r \in Reqs :
        (IsConvert(r) /\ resp[r].status = 200) =>
            /\ pc[r] = "streaming" =>
                    (Exists(fs, output_path[r]) /\ temp_dir[r] \in fs.dirs)
            /\ pc[r] = "done" => body[r] = "sent"


\* the file-system operations the request has done
OpsOf(o, r) == {x \in o : x.req = r}

\* C14: the step that answers a POST /convert with 400 changes nothing on
\* disk and does no file-system operation; the request has no scratch
\* directory, no staged file and no converter call, and it does nothing
\* afterwards.
C14_RejectedTouchesNothing ==
    [][\A r \in Reqs :
        /\ (pc[r] = "start" /\ resp'[r].status = 400)
                => /\ fs' = fs
                   /\ ops' = ops
                   /\ pc'[r] = "done"
        /\ resp'[r].status = 400
                => /\ temp_dir'[r] = NoDir
                   /\ input_path'[r] = NoPath
                   /\ conv_args'[r] = NoArgs
                   /\ proc'[r] = NoRun
                   /\ launches'[r] = 0
                   /\ OpsOf(ops', r) = {}]_vars

\* C14 witness: one upload was rejected with 400 and left nothing, while the
\* other request's scratch directory and staged file are on disk
C14_Witness ==
    /\ pc["r1"] = "done"
    /\ resp["r1"].status = 400
    /\ temp_dir["r1"] = NoDir
    /\ OpsOf(ops, "r1") = {}
    /\ pc["r2"] = "converting"
    /\ fs.dirs = {temp_dir["r2"]}
    /\ Exists(fs, input_path["r2"])

====
